---- MODULE Spec2Model ----
(***************************************************************************)
(* The recursive Sierpinski subdivision of python_guide_55ebb2.py as a     *)
(* state machine: the Python call stack of draw_sierpinski is explicit,    *)
(* the ImageDraw surface is the sequence of polygons drawn on it.          *)
(***************************************************************************)
EXTENDS Integers, Sequences, FiniteSets

VARIABLES
    args,       \* the arguments of the top-level call: [p1, p2, p3, level]
    mainpc,     \* where the caller is: "L89" before the call, "called", "done"
    stack,      \* the active draw_sierpinski frames, outermost first
    draws,      \* the polygons drawn on the current surface, in order
    calls,      \* invocations of draw_sierpinski in the current run
    maxFrames,  \* the largest number of simultaneously active frames so far
    run,        \* 1 in the first run, 2 in a repeated run on a fresh surface
    first       \* the polygons the first run drew (empty during run 1)

vars == <<args, mainpc, stack, draws, calls, maxFrames, run, first>>

-----------------------------------------------------------------------------
(* Bounds of the explored inputs *)

MaxCoord == 1
MaxDepth == 2

Coords == -1 .. MaxCoord
Levels == -1 .. MaxDepth
Points == Coords \X Coords

-----------------------------------------------------------------------------
(* The driver's constants *)

image_width == 800
image_height == 700
recursion_level == 7

outer_triangle_vertices ==
    << <<image_width \div 2, 50>>,
       <<50, image_height - 50>>,
       <<image_width - 50, image_height - 50>> >>

-----------------------------------------------------------------------------
(* draw_sierpinski *)

Unset == <<>>

\* Python's // on integers: the quotient rounded toward negative infinity.
FloorDiv2(s) == s \div 2

\* Variants of the midpoint a faulty implementation could compute.
TruncDiv2(s) == IF s >= 0 THEN s \div 2 ELSE -((-s) \div 2)
MidpointTowardZero(p, q) == <<TruncDiv2(p[1] + q[1]), TruncDiv2(p[2] + q[2])>>
MidpointPrecedence(p, q) == <<p[1] + FloorDiv2(q[1]), p[2] + FloorDiv2(q[2])>>

Midpoint(p, q) == <<FloorDiv2(p[1] + q[1]), FloorDiv2(p[2] + q[2])>>

Frame(p1, p2, p3, level) ==
    [p1 |-> p1, p2 |-> p2, p3 |-> p3, level |-> level, pc |-> "L31",
     m12 |-> Unset, m23 |-> Unset, m31 |-> Unset, made |-> <<>>]

IsBaseAtOne(f) == f.level <= 1
IsBaseBelowZero(f) == f.level < 0

IsBase(f) == f.level <= 0

PolygonReversed(f) == [pts |-> <<f.p3, f.p2, f.p1>>, fill |-> "black"]

Polygon(f) == [pts |-> <<f.p1, f.p2, f.p3>>, fill |-> "black"]

ChildLevelSkip(f) == f.level - 2

ChildLevel(f) == f.level - 1

Child1Swapped(f) == Frame(f.p1, f.m31, f.m12, ChildLevel(f))

Child1(f) == Frame(f.p1, f.m12, f.m31, ChildLevel(f))

Child2Inner(f) == Frame(f.m12, f.m23, f.m31, ChildLevel(f))

Child2(f) == Frame(f.m12, f.p2, f.m23, ChildLevel(f))

Child3NoCorner(f) == Frame(f.m31, f.m23, f.m12, ChildLevel(f))

Child3(f) == Frame(f.m31, f.m23, f.p3, ChildLevel(f))

Top == stack[Len(stack)]

SetTop(f) == [stack EXCEPT ![Len(stack)] = f]

CallArgs(f) == [p1 |-> f.p1, p2 |-> f.p2, p3 |-> f.p3, level |-> f.level]

Max(a, b) == IF a >= b THEN a ELSE b

\* The line a frame resumes at when the call it made returns.
NextLine(pc) ==
    CASE pc = "L50" -> "L52"
      [] pc = "L52" -> "L54"
      [] pc = "L54" -> "end"

\* __main__ calls draw_sierpinski once with the chosen arguments.
MainCall ==
    /\ mainpc = "L89"
    /\ stack' = <<Frame(args.p1, args.p2, args.p3, args.level)>>
    /\ calls' = 1
    /\ maxFrames' = Max(maxFrames, 1)
    /\ mainpc' = "called"
    /\ UNCHANGED <<args, draws, run, first>>

\* level <= 0: draw the triangle, then return.
BaseCase ==
    /\ stack # <<>>
    /\ Top.pc = "L31"
    /\ IsBase(Top)
    /\ draws' = Append(draws, Polygon(Top))
    /\ stack' = SetTop([Top EXCEPT !.pc = "L34"])
    /\ UNCHANGED <<args, mainpc, calls, maxFrames, run, first>>

\* level > 0: compute the three midpoints.
Subdivide ==
    /\ stack # <<>>
    /\ Top.pc = "L31"
    /\ ~IsBase(Top)
    /\ stack' = SetTop([Top EXCEPT !.m12 = Midpoint(Top.p1, Top.p2),
                                   !.m23 = Midpoint(Top.p2, Top.p3),
                                   !.m31 = Midpoint(Top.p3, Top.p1),
                                   !.pc = "L50"])
    /\ UNCHANGED <<args, mainpc, draws, calls, maxFrames, run, first>>

\* A frame at a call line calls draw_sierpinski with the child's arguments.
Push(child) ==
    /\ stack' = Append(SetTop([Top EXCEPT !.made = Append(@, CallArgs(child))]),
                       child)
    /\ calls' = calls + 1
    /\ maxFrames' = Max(maxFrames, Len(stack) + 1)
    /\ UNCHANGED <<args, mainpc, draws, run, first>>

\* A call site that picks its child from an unordered collection.
Call50Unordered ==
    /\ stack # <<>>
    /\ Top.pc = "L50"
    /\ \E c \in {Child1(Top), Child2(Top)} : Push(c)

Call50 ==
    /\ stack # <<>>
    /\ Top.pc = "L50"
    /\ Push(Child1(Top))

Call52 ==
    /\ stack # <<>>
    /\ Top.pc = "L52"
    /\ Push(Child2(Top))

Call54 ==
    /\ stack # <<>>
    /\ Top.pc = "L54"
    /\ Push(Child3(Top))

\* A frame returns: its caller resumes at the next line.
Return ==
    /\ stack # <<>>
    /\ Top.pc \in {"L34", "end"}
    /\ LET rest == SubSeq(stack, 1, Len(stack) - 1)
       IN  IF rest = <<>>
           THEN /\ stack' = <<>>
                /\ mainpc' = "done"
           ELSE /\ stack' = [rest EXCEPT ![Len(rest)].pc = NextLine(@)]
                /\ mainpc' = mainpc
    /\ UNCHANGED <<args, draws, calls, maxFrames, run, first>>

\* The same call again, with the same arguments, on a fresh surface.
Rerun ==
    /\ mainpc = "done"
    /\ run = 1
    /\ run' = 2
    /\ first' = draws
    /\ draws' = <<>>
    /\ calls' = 0
    /\ maxFrames' = 0
    /\ mainpc' = "L89"
    /\ UNCHANGED <<args, stack>>

-----------------------------------------------------------------------------
(* Specifications *)

Inputs ==
    [p1 : Points, p2 : Points, p3 : Points, level : Levels]
    \cup
    [p1 : {outer_triangle_vertices[1]}, p2 : {outer_triangle_vertices[2]},
     p3 : {outer_triangle_vertices[3]}, level : Levels \cup {recursion_level}]

Init ==
    /\ args \in Inputs
    /\ mainpc = "L89"
    /\ stack = <<>>
    /\ draws = <<>>
    /\ calls = 0
    /\ maxFrames = 0
    /\ run = 1
    /\ first = <<>>

Next ==
    \/ MainCall
    \/ BaseCase
    \/ Subdivide
    \/ Call50
    \/ Call52
    \/ Call54
    \/ Return

Spec == Init /\ [][Next]_vars

\* Python runs the call to completion: no step is postponed forever.
FairSpec == Spec /\ WF_vars(Next)

NextTwoRuns == Next \/ Rerun

TwoRuns == Init /\ [][NextTwoRuns]_vars

-----------------------------------------------------------------------------
(* Vocabulary of the properties *)

RECURSIVE Pow3(_)
Pow3(n) == IF n <= 0 THEN 1 ELSE 3 * Pow3(n - 1)

Done == mainpc = "done"

Indices == 1 .. Len(stack)

Black(p1, p2, p3) == [pts |-> <<p1, p2, p3>>, fill |-> "black"]

OuterArgs ==
    /\ args.p1 = <<400, 50>>
    /\ args.p2 = <<50, 650>>
    /\ args.p3 = <<750, 650>>

\* m is the sum s halved and rounded toward negative infinity.
IsFloorHalf(m, s) == 2 * m <= s /\ s <= 2 * m + 1

IsFloorMid(m, p, q) ==
    /\ m \in Int \X Int
    /\ IsFloorHalf(m[1], p[1] + q[1])
    /\ IsFloorHalf(m[2], p[2] + q[2])

\* The frame has executed lines 41-43.
HasMidpoints(f) == f.pc \in {"L50", "L52", "L54", "end"}

-----------------------------------------------------------------------------
(* C1 *)

\* C1: a top-level call with depth d >= 0 has issued exactly 3^d polygon
\* draws when it returns; with d = 7 that is 2187 draws.
DrawCountIsPowerOfThree ==
    (Done /\ args.level >= 0) =>
        /\ Len(draws) = Pow3(args.level)
        /\ (args.level = 7 => Len(draws) = 2187)

OuterTriangleDepthTwoDrewNine ==
    Done /\ OuterArgs /\ args.level = 2 /\ Len(draws) = 9

-----------------------------------------------------------------------------
(* C2 *)

\* C2: a call with level <= 0 draws exactly one polygon, with vertex list
\* [(x1,y1), (x2,y2), (x3,y3)] in that order and fill black, makes no
\* recursive call and returns.
BaseCaseDrawsOneBlackTriangle ==
    /\ \A i \in Indices :
          stack[i].level <= 0 =>
              /\ i = Len(stack)
              /\ stack[i].made = <<>>
              /\ stack[i].pc \in {"L31", "L34"}
              /\ stack[i].pc = "L34" =>
                    /\ draws # <<>>
                    /\ draws[Len(draws)] =
                           Black(stack[i].p1, stack[i].p2, stack[i].p3)
    /\ (Done /\ args.level <= 0) =>
          /\ draws = <<Black(args.p1, args.p2, args.p3)>>
          /\ calls = 1

OuterTriangleDepthZeroDone ==
    Done /\ OuterArgs /\ args.level = 0 /\ Len(draws) = 1

-----------------------------------------------------------------------------
(* C3 *)

ExpectedChildren(f) ==
    LET m12 == Midpoint(f.p1, f.p2)
        m23 == Midpoint(f.p2, f.p3)
        m31 == Midpoint(f.p3, f.p1)
    IN  << [p1 |-> f.p1, p2 |-> m12, p3 |-> m31, level |-> f.level - 1],
           [p1 |-> m12, p2 |-> f.p2, p3 |-> m23, level |-> f.level - 1],
           [p1 |-> m31, p2 |-> m23, p3 |-> f.p3, level |-> f.level - 1] >>

\* The number of calls a frame has made, by the line it is at.
CallsMadeAt(i) ==
    LET f == stack[i]
        waiting == i < Len(stack)
    IN  CASE f.pc = "L31" -> 0
          [] f.pc = "L34" -> 0
          [] f.pc = "L50" -> IF waiting THEN 1 ELSE 0
          [] f.pc = "L52" -> IF waiting THEN 2 ELSE 1
          [] f.pc = "L54" -> IF waiting THEN 3 ELSE 2
          [] f.pc = "end" -> 3

\* C3: a call with level > 0 draws nothing itself and makes exactly three
\* recursive calls with level - 1, in the order (p1, m12, m31),
\* (m12, p2, m23), (m31, m23, p3); the outer triangle at depth 1 draws
\* exactly the three listed corner triangles, in that order.
RecursiveStepMakesThreeCornerCalls ==
    /\ \A i \in Indices :
          stack[i].level > 0 =>
              /\ stack[i].pc # "L34"
              /\ stack[i].made =
                     SubSeq(ExpectedChildren(stack[i]), 1, CallsMadeAt(i))
              /\ i < Len(stack) =>
                     CallArgs(stack[i + 1]) = stack[i].made[Len(stack[i].made)]
    /\ (stack # <<>> /\ Top.pc = "L34") => Top.level <= 0
    /\ (Done /\ args.level > 0) => calls > Len(draws)
    /\ (Done /\ OuterArgs /\ args.level = 1) =>
          draws = << Black(<<400, 50>>, <<225, 350>>, <<575, 350>>),
                     Black(<<225, 350>>, <<50, 650>>, <<400, 650>>),
                     Black(<<575, 350>>, <<400, 650>>, <<750, 650>>) >>

OuterTriangleDepthOneDone ==
    Done /\ OuterArgs /\ args.level = 1 /\ Len(draws) = 3

-----------------------------------------------------------------------------
(* C4 *)

\* C4: every midpoint draw_sierpinski uses is the coordinate sums halved
\* and rounded toward negative infinity, also for negative and odd sums;
\* midpoint((1,1),(2,2)) = (1,1) and midpoint((-1,-1),(-2,-2)) = (-2,-2).
MidpointIsFloorOfHalfSum ==
    /\ \A i \in Indices :
          HasMidpoints(stack[i]) =>
              /\ IsFloorMid(stack[i].m12, stack[i].p1, stack[i].p2)
              /\ IsFloorMid(stack[i].m23, stack[i].p2, stack[i].p3)
              /\ IsFloorMid(stack[i].m31, stack[i].p3, stack[i].p1)
    /\ Midpoint(<<1, 1>>, <<2, 2>>) = <<1, 1>>
    /\ Midpoint(<<-1, -1>>, <<-2, -2>>) = <<-2, -2>>

MidpointOfOddNegativeSum ==
    /\ stack # <<>>
    /\ HasMidpoints(Top)
    /\ Top.p1[1] + Top.p2[1] = -1
    /\ Top.p2[2] + Top.p3[2] = -1
    /\ Top.m12[1] = -1
    /\ Top.m23[2] = -1

-----------------------------------------------------------------------------
(* C5 *)

Triangle(f) == <<f.p1, f.p2, f.p3>>

\* The central triangle of a frame that has computed its midpoints.
Inner(f) == <<f.m12, f.m23, f.m31>>

PairwiseDistinct(t) == t[1] # t[2] /\ t[2] # t[3] /\ t[1] # t[3]

\* The frame on top has just drawn its triangle; the frames below it are
\* the calls on the path from the root to this leaf.
LeafDrawn == stack # <<>> /\ Top.pc = "L34"

Ancestors == 1 .. (Len(stack) - 1)

\* C5 as stated: no drawn leaf equals the inner triangle (m12, m23, m31) of
\* any call on the path from the root to it, for every integer triangle,
\* degenerate ones included.
LeafNeverEqualsAncestorInner ==
    LeafDrawn => \A i \in Ancestors : Triangle(Top) # Inner(stack[i])

\* C5 amended: no drawn leaf with three pairwise distinct vertices equals,
\* vertex for vertex, the inner triangle of any call on the path from the
\* root to it.
DistinctLeafNeverEqualsAncestorInner ==
    (LeafDrawn /\ PairwiseDistinct(Triangle(Top))) =>
        \A i \in Ancestors : Triangle(Top) # Inner(stack[i])

DistinctLeafBelowTwoAncestors ==
    /\ LeafDrawn
    /\ Len(stack) >= 3
    /\ PairwiseDistinct(Triangle(Top))
    /\ \A i \in Ancestors : PairwiseDistinct(Inner(stack[i]))

-----------------------------------------------------------------------------
(* C6 *)

\* C6: a second run with the same arguments on a fresh surface issues the
\* same polygon draws in the same order with the same fill as the first,
\* so both surfaces end in the same state.
SecondRunDrawsTheSame ==
    run = 2 =>
        /\ Len(draws) <= Len(first)
        /\ draws = SubSeq(first, 1, Len(draws))
        /\ Done => draws = first

SecondRunOfDepthTwoDone ==
    run = 2 /\ Done /\ args.level = 2 /\ Len(draws) = 9 /\ draws[1] # draws[2]

-----------------------------------------------------------------------------
(* C7 *)

CallsOfDepth(d) == IF d >= 0 THEN (Pow3(d + 1) - 1) \div 2 ELSE 1

\* C7: every top-level call returns; level drops by exactly 1 per recursive
\* call and only calls with level > 0 recurse; the number of invocations is
\* (3^(d+1) - 1)/2 for d >= 0 and 1 for d < 0.
TerminatesWithCallCount ==
    /\ <>Done
    /\ [](Done => calls = CallsOfDepth(args.level))
    /\ [](\A i \in Ancestors :
             /\ stack[i].level > 0
             /\ stack[i + 1].level = stack[i].level - 1)

ReturnedAfterThirteenCalls ==
    Done /\ args.level = 2 /\ calls = 13

-----------------------------------------------------------------------------
(* C8 *)

\* The argument position whose parent vertex the call made at a line keeps.
KeptPosition(pc) ==
    CASE pc = "L50" -> 1
      [] pc = "L52" -> 2
      [] pc = "L54" -> 3

SideMidpoints(f) ==
    {Midpoint(f.p1, f.p2), Midpoint(f.p2, f.p3), Midpoint(f.p3, f.p1)}

\* C8: every vertex passed to a recursive call is a vertex of the parent or
\* the midpoint of one of its sides; the child takes the parent's vertex in
\* one argument position (p1 first, p2 second, p3 third) and midpoints in
\* the other two.
ChildVerticesComeFromParent ==
    \A i \in Ancestors :
        LET f == stack[i]
            c == Triangle(stack[i + 1])
            k == KeptPosition(f.pc)
        IN  /\ \A j \in 1 .. 3 : c[j] \in {f.p1, f.p2, f.p3} \cup SideMidpoints(f)
            /\ c[k] = Triangle(f)[k]
            /\ \A j \in (1 .. 3) \ {k} : c[j] \in SideMidpoints(f)

ThirdChildOfProperTriangle ==
    /\ Len(stack) >= 2
    /\ stack[1].pc = "L54"
    /\ PairwiseDistinct(Triangle(stack[1]))
    /\ stack[2].p3 = stack[1].p3
    /\ stack[2].p3 \notin SideMidpoints(stack[1])

-----------------------------------------------------------------------------
(* C9 *)

\* C9 as stated: the largest number of simultaneously active frames of a
\* top-level call with depth d >= 0 equals d.
MaxFramesEqualsDepth ==
    (Done /\ args.level >= 0) => maxFrames = args.level

\* C9 amended: the largest number of simultaneously active frames of a
\* top-level call with depth d >= 0 equals d + 1.
MaxFramesEqualsDepthPlusOne ==
    /\ Len(stack) <= maxFrames
    /\ args.level >= 0 => maxFrames <= args.level + 1
    /\ (Done /\ args.level >= 0) => maxFrames = args.level + 1

ThreeFramesAtDepthTwo ==
    Done /\ OuterArgs /\ args.level = 2 /\ maxFrames = 3

-----------------------------------------------------------------------------
(* C10 *)

Min3(a, b, c) == IF a <= b /\ a <= c THEN a ELSE IF b <= c THEN b ELSE c

Max3(a, b, c) == IF a >= b /\ a >= c THEN a ELSE IF b >= c THEN b ELSE c

InStartBox(p) ==
    /\ Min3(args.p1[1], args.p2[1], args.p3[1]) <= p[1]
    /\ p[1] <= Max3(args.p1[1], args.p2[1], args.p3[1])
    /\ Min3(args.p1[2], args.p2[2], args.p3[2]) <= p[2]
    /\ p[2] <= Max3(args.p1[2], args.p2[2], args.p3[2])

InDriverBox(p) == p[1] \in 50 .. 750 /\ p[2] \in 50 .. 650

\* C10: every vertex of every triangle passed to a call or drawn as a leaf
\* lies in the bounding box of the three starting vertices; in the driver's
\* run that is x in [50, 750] and y in [50, 650].  (Every polygon is the
\* last one drawn in the state its leaf reaches line 34.)
VerticesStayInStartingBox ==
    /\ \A i \in Indices : \A j \in 1 .. 3 :
          /\ InStartBox(Triangle(stack[i])[j])
          /\ OuterArgs => InDriverBox(Triangle(stack[i])[j])
    /\ LeafDrawn => \A j \in 1 .. 3 :
          /\ InStartBox(draws[Len(draws)].pts[j])
          /\ OuterArgs => InDriverBox(draws[Len(draws)].pts[j])

DeepestLeafOfDriverRun ==
    /\ OuterArgs
    /\ LeafDrawn
    /\ args.level = recursion_level
    /\ Len(stack) = recursion_level + 1

====
